---- MODULE Spec2Model ----
(***************************************************************************)
(* Robin Hood hash table of matovitch/RobinHoodHashtable.                  *)
(*                                                                         *)
(* Three revisions of the table are modelled, each from its own source:    *)
(*   rev = "A" : src/RobinHoodHashtable.hpp  (EMPTY/REHASH/FILLED = 0/1/2, *)
(*               in-place rehash, size incremented before the probe)       *)
(*   rev = "B" : src/unnamed/part_002        (EMPTY/FILLED = 0/1, a filled *)
(*               sentinel bucket at index capacity, clear)                 *)
(*   rev = "P" : src/unnamed/part_000        (the buckets and the erase of *)
(*               A, a std::vector of buckets, its own insert and rehash)   *)
(*                                                                         *)
(* A table is a record [capacity, size, buckets, hung, wrapped, rehashing,  *)
(* nested]; buckets maps the C array index to [dib, value].  The last four *)
(* fields are no members of the class, they record what happened in the    *)
(* calls made on the table: hung, that a call never returned; wrapped,     *)
(* that insert computed a dib past the largest uint8_t; rehashing, how     *)
(* many calls of rehash are in progress; nested, that rehash was entered   *)
(* while another call of rehash was in progress.                           *)
(* Every handler is an operator                                            *)
(* from table to table that follows the code statement by statement; the   *)
(* goto and while loops are step operators run to their end.  The hasher   *)
(* is an arbitrary function chosen at construction; the equality predicate *)
(* is std::equal_to, i.e. =.                                               *)
(***************************************************************************)
EXTENDS Integers, Sequences, FiniteSets, TLC

(* ------------------------------ bounds -------------------------------- *)

\* values handed to the table are 1..MaxVal
MaxVal == 3
\* number of buckets a table starts with.  The sources set 4096 (A) and 16
\* (B); the algorithms only use it as the first capacity, and the model
\* starts smaller so that growth is reached within a few inserts.
INIT_SIZE == 2
\* insert is not called any more once size() has reached MaxSize
MaxSize == 4

\* number of values inserted into one probe chain (SpecChain): enough for a
\* dib to pass the largest uint8_t
ChainLen == 256

\* number of pairwise-distinct values inserted in a row (SpecGrow): enough
\* for a table that has held a probe chain of 2^8 buckets to come to its
\* next growth but one
GrowLen == 768

Values == 1..MaxVal
\* The hash values a hasher may give: two neighbouring home buckets, and one
\* that shares the home bucket of the first at the first two capacities
\* (INIT_SIZE and 2 * INIT_SIZE) and no longer at larger ones.
HashRange == {0, 1, 2 * INIT_SIZE}
Hashers == [Values -> HashRange]
\* first capacity of the comparison table that never has to grow
BigCapacity == 8 * INIT_SIZE
\* the sizes reserve is called with
ReserveSizes == 0..MaxSize

(* ------------------------- program constants -------------------------- *)

EMPTY == 0
REHASH == 1
A_FILLED == 2
B_FILLED == 1
A_LOAD_FACTOR == 3
B_LOAD_FACTOR == 2
\* _dib is a uint8_t: dib++ and _dib + 1 are stored modulo 2^8
DIB_BITS == 8
\* part_000: LOAD_FACTOR is 0.7, in tenths; EXP_GROWTH is 2.0
P_LOAD_TENTHS == 7
P_EXP_GROWTH == 2
\* the number of buckets the sources start with
A_INIT_SIZE == 4096
B_INIT_SIZE == 16
\* main: the first value inserted, the first value not erased, the value
\* looked up
DEMO_FIRST == 99
DEMO_KEPT == 50
DEMO_SOUGHT == 35

Shl(x, n) == x * (2 ^ n)

U8(x) == x % (2 ^ DIB_BITS)

\* dib++ or _dib + 1 on a dib of x does not fit the uint8_t
Wraps(x) == x + 1 >= 2 ^ DIB_BITS

\* rev:    the revision the run is about, "A", "B" or "P"
\* hasher: the hash function the table was constructed with
\* junk:   what the _value of a bucket that was never written reads as
\* tbl:    the table
\* big:    a table of the same revision that receives the same calls but
\*         starts with BigCapacity buckets
\* ref:    reference set: the values inserted and not erased since
\* op:     the last call: its name, its argument, whether a filled bucket
\*         held the argument when it was made (stored) and whether the
\*         argument was in the reference set then (live)
\* calls:  "distinct" while every call so far was an insert of a value not
\*         inserted before, "mixed" once another insert or an erase was
\*         made, "any" once clear was called; "ascending" or "descending"
\*         while all values are being erased in that order (SpecDrain);
\*         "reserved" once reserve was called on the fresh table (SpecRoom)
VARIABLES rev, hasher, junk, tbl, big, ref, op, calls

vars == <<rev, hasher, junk, tbl, big, ref, op, calls>>

(* ------------------------------ Bucket -------------------------------- *)

\* A: value-initialised bucket, then markEmpty()
A_Bucket == [dib |-> EMPTY, value |-> 0]
A_isEmpty(b) == b.dib = EMPTY
A_isRehash(b) == b.dib = REHASH
A_isFilled(b) == b.dib >= A_FILLED

\* B: Bucket() : _dib(EMPTY) {} leaves _value as the memory was: junk
B_Bucket == [dib |-> EMPTY, value |-> junk]
B_isEmpty(b) == b.dib = EMPTY
B_isFilled(b) == b.dib # EMPTY

(* ------------------------------- loops -------------------------------- *)

\* A while or goto loop of the source is a step operator (one test of the
\* loop condition and one pass of its body) and a run operator that applies
\* the step until the loop has ended ("done").  A run takes at most Fuel(t)
\* steps, more than any loop that ends can take on a table of that capacity
\* with 8-bit dibs; a loop that has not ended by then never returns, and the
\* call that made it leaves the table marked hung.
Fuel(t) == (2 ^ DIB_BITS) * (t.capacity + 1)

\* The skip loop of insert ends within 2^8 steps: its dib only grows, and
\* no bucket's dib is above the largest 8-bit value.
SkipFuel == 2 ^ DIB_BITS

(* ======================= revision A: the table ======================== *)

\* RobinHoodHashtable(): capacity buckets, all marked empty, _size = 0
A_construct(cap) ==
    [capacity |-> cap, size |-> 0, hung |-> FALSE,
     wrapped |-> FALSE, rehashing |-> 0, nested |-> FALSE,
     buckets |-> [i \in 0..(cap - 1) |-> A_Bucket]]

\* The skip loop as plain linear probing has it: every bucket that is not
\* empty is passed, whatever its dib.
A_skipStep_linear(t, hash, st) ==
    IF ~A_isEmpty(t.buckets[(hash + st.dib) % t.capacity])
    THEN [st EXCEPT !.dib = U8(@ + 1), !.wrapped = @ \/ Wraps(st.dib)]
    ELSE [st EXCEPT !.done = TRUE]

\* insert: while (dib < _buckets[(hash + dib) % _capacity]._dib) dib++;
A_skipStep(t, hash, st) ==
    IF st.dib < t.buckets[(hash + st.dib) % t.capacity].dib
    THEN [st EXCEPT !.dib = U8(@ + 1), !.wrapped = @ \/ Wraps(st.dib)]
    ELSE [st EXCEPT !.done = TRUE]

RECURSIVE A_skipRun(_, _, _, _)
A_skipRun(t, hash, st, n) ==
    IF st.done \/ n = 0 THEN st
    ELSE IF n = 1 THEN A_skipStep(t, hash, st)
    ELSE A_skipRun(t, hash, A_skipRun(t, hash, st, n \div 2), n - (n \div 2))

\* where the skip loop stops: [dib, wrapped, done]
A_skip(t, hash, dib) ==
    A_skipRun(t, hash, [dib |-> dib, wrapped |-> FALSE, done |-> FALSE], SkipFuel)

RECURSIVE A_insert(_, _)

\* insert, one pass from the label loop: to the goto or to the end
A_insertStep(st) ==
    LET hash == hasher[st.v]
        at == A_skip(st.t, hash, st.dib)
        t == [st.t EXCEPT !.wrapped = @ \/ at.wrapped]
        dib == at.dib
        p == (hash + dib) % t.capacity
        head == t.buckets[p]
    IN  IF dib = head.dib /\ st.v = head.value
        THEN [st EXCEPT !.t = [t EXCEPT !.size = @ - 1], !.done = TRUE]
        ELSE IF A_isEmpty(head)
        THEN [st EXCEPT !.t = [t EXCEPT !.buckets[p] = [dib |-> dib, value |-> st.v]],
                        !.done = TRUE]
        ELSE [t |-> [t EXCEPT !.size = IF A_isRehash(head) THEN @ + 1 ELSE @,
                              !.buckets[p] = [dib |-> dib, value |-> st.v],
                              !.wrapped = @ \/ Wraps(head.dib)],
              v |-> head.value,
              dib |-> U8(head.dib + 1),
              done |-> FALSE]

RECURSIVE A_insertRun(_, _)
A_insertRun(st, n) ==
    IF st.done \/ n = 0 THEN st
    ELSE IF n = 1 THEN A_insertStep(st)
    ELSE A_insertRun(A_insertRun(st, n \div 2), n - (n \div 2))

A_insertLoop(t, v, dib) ==
    LET r == A_insertRun(A_insertRun([t |-> t, v |-> v, dib |-> dib, done |-> FALSE],
                                     SkipFuel), Fuel(t))
    IN  IF r.done THEN r.t ELSE [r.t EXCEPT !.hung = TRUE]

\* rehash, the second loop, bucket i: a to-rehash bucket is emptied and its
\* value inserted
A_rehashStep(st, oldCapacity) ==
    IF st.i >= oldCapacity \/ st.t.hung THEN [st EXCEPT !.done = TRUE]
    ELSE IF A_isRehash(st.t.buckets[st.i])
    THEN [st EXCEPT !.t = A_insert([st.t EXCEPT !.buckets[st.i].dib = EMPTY],
                                   st.t.buckets[st.i].value),
                    !.i = @ + 1]
    ELSE [st EXCEPT !.i = @ + 1]

RECURSIVE A_rehashRun(_, _, _)
A_rehashRun(st, oldCapacity, n) ==
    IF st.done \/ n = 0 THEN st
    ELSE IF n = 1 THEN A_rehashStep(st, oldCapacity)
    ELSE A_rehashRun(A_rehashRun(st, oldCapacity, n \div 2), oldCapacity, n - (n \div 2))

A_rehashLoop(t, oldCapacity) ==
    A_rehashRun([t |-> t, i |-> 0, done |-> FALSE], oldCapacity, oldCapacity + 1).t

\* a call of rehash begins: one more in progress, nested if there was one
RehashEnter(t) ==
    [t EXCEPT !.rehashing = @ + 1, !.nested = @ \/ t.rehashing > 0]

\* a call of rehash returns
RehashLeave(t) == [t EXCEPT !.rehashing = @ - 1]

\* Growth without reinsertion: the array is made twice as large and every
\* bucket stays where it is.
A_rehash_inPlace(t) ==
    [t EXCEPT !.capacity = Shl(t.capacity, 1),
              !.buckets = [i \in 0..(Shl(t.capacity, 1) - 1) |->
                             IF i < t.capacity THEN t.buckets[i] ELSE A_Bucket]]

\* rehash: copy into an array twice as large, mark the filled buckets
\* to-rehash, the new half empty, _size = 1, reinsert
A_rehash(t) ==
    LET oldCapacity == t.capacity
        newCapacity == Shl(t.capacity, 1)
        marked == [i \in 0..(newCapacity - 1) |->
                     IF i < oldCapacity
                     THEN IF A_isFilled(t.buckets[i])
                          THEN [t.buckets[i] EXCEPT !.dib = REHASH]
                          ELSE t.buckets[i]
                     ELSE A_Bucket]
    IN  RehashLeave(A_rehashLoop([RehashEnter(t) EXCEPT !.capacity = newCapacity,
                                                        !.size = 1,
                                                        !.buckets = marked],
                                 oldCapacity))

\* the rehash test of insert
A_needRehash(size, capacity) ==
    Shl(size, A_LOAD_FACTOR) >= Shl(capacity, A_LOAD_FACTOR) - capacity

A_insert(t, v) ==
    LET t1 == [t EXCEPT !.size = @ + 1]
        t2 == IF A_needRehash(t1.size, t1.capacity) THEN A_rehash(t1) ELSE t1
    IN  IF t2.hung THEN t2 ELSE A_insertLoop(t2, v, A_FILLED)

\* the probe loop of erase and ufind:
\* while (dib < prec->_dib || (dib == prec->_dib && !_equalTo(t, prec->_value)))
\*     { dib++; prec = &_buckets[(hash + dib) % _capacity]; }
A_probeStep(t, v, st) ==
    LET prec == t.buckets[(hasher[v] + st.dib) % t.capacity]
    IN  IF st.dib < prec.dib \/ (st.dib = prec.dib /\ v # prec.value)
        THEN [st EXCEPT !.dib = U8(@ + 1), !.wrapped = @ \/ Wraps(st.dib)]
        ELSE [st EXCEPT !.done = TRUE]

RECURSIVE A_probeRun(_, _, _, _)
A_probeRun(t, v, st, n) ==
    IF st.done \/ n = 0 THEN st
    ELSE IF n = 1 THEN A_probeStep(t, v, st)
    ELSE A_probeRun(t, v, A_probeRun(t, v, st, n \div 2), n - (n \div 2))

\* where the probe loop stops: [dib, wrapped, done]
A_probe(t, v) ==
    A_probeRun(t, v, [dib |-> A_FILLED, wrapped |-> FALSE, done |-> FALSE], Fuel(t))

\* Erase without the backward shift: the bucket found is emptied where it
\* is.
A_shiftStep_noShift(st) ==
    [st EXCEPT !.t.buckets[st.prec].dib = EMPTY,
               !.t.size = @ - 1,
               !.done = TRUE]

\* erase: while (succ->_dib > FILLED) shift succ into prec; then empty the
\* last bucket and decrement the size
A_shiftStep(st) ==
    LET t == st.t
        succ == (st.prec + 1) % t.capacity
    IN  IF t.buckets[succ].dib > A_FILLED
        THEN [st EXCEPT !.t.buckets[st.prec] = [dib |-> t.buckets[succ].dib - 1,
                                                value |-> t.buckets[succ].value],
                        !.prec = succ]
        ELSE [st EXCEPT !.t.buckets[st.prec].dib = EMPTY,
                        !.t.size = @ - 1,
                        !.done = TRUE]

RECURSIVE A_shiftRun(_, _)
A_shiftRun(st, n) ==
    IF st.done \/ n = 0 THEN st
    ELSE IF n = 1 THEN A_shiftStep(st)
    ELSE A_shiftRun(A_shiftRun(st, n \div 2), n - (n \div 2))

A_shift(t, prec) ==
    LET r == A_shiftRun([t |-> t, prec |-> prec, done |-> FALSE], Fuel(t))
    IN  IF r.done THEN r.t ELSE [r.t EXCEPT !.hung = TRUE]

\* Erase that only counts: the size goes down, the bucket stays.
A_erase_countOnly(t, v) == [t EXCEPT !.size = @ - 1]

A_erase(t, v) ==
    LET at == A_probe(t, v)
        prec == (hasher[v] + at.dib) % t.capacity
    IN  IF ~at.done THEN [t EXCEPT !.hung = TRUE]
        ELSE IF at.dib = t.buckets[prec].dib /\ v = t.buckets[prec].value
        THEN A_shift(t, prec)
        ELSE t

\* ufind: the index of the bucket found, capacity for uend(), -1 when the
\* probe loop never ends
A_ufind(t, v) ==
    LET at == A_probe(t, v)
        prec == (hasher[v] + at.dib) % t.capacity
    IN  IF ~at.done THEN -1
        ELSE IF at.dib = t.buckets[prec].dib /\ v = t.buckets[prec].value
        THEN prec
        ELSE t.capacity

A_uend(t) == t.capacity

\* operator++ without the loop: one bucket forward, filled or not.
A_nextStep_noSkip(t, st) == [p |-> st.p + 1, done |-> TRUE]

\* Iterator::operator++: do _bucketPtr++ while not at _end and not filled
A_nextStep(t, st) ==
    IF st.p + 1 # t.capacity /\ ~A_isFilled(t.buckets[st.p + 1])
    THEN [st EXCEPT !.p = @ + 1]
    ELSE [p |-> st.p + 1, done |-> TRUE]

RECURSIVE A_nextRun(_, _, _)
A_nextRun(t, st, n) ==
    IF st.done \/ n = 0 THEN st
    ELSE IF n = 1 THEN A_nextStep(t, st)
    ELSE A_nextRun(t, A_nextRun(t, st, n \div 2), n - (n \div 2))

A_next(t, p) == A_nextRun(t, [p |-> p, done |-> FALSE], t.capacity + 1).p

A_ubegin(t) == IF A_isFilled(t.buckets[0]) THEN 0 ELSE A_next(t, 0)

A_size(t) == t.size

(* ======================= revision B: the table ======================== *)

\* init(capacity): capacity + 1 default-constructed buckets, the last one
\* (the end sentinel) marked filled; _size is left as it is
B_init(t, capacity) ==
    [t EXCEPT !.capacity = capacity,
              !.buckets = [i \in 0..capacity |->
                             IF i = capacity THEN [B_Bucket EXCEPT !.dib = B_FILLED]
                             ELSE B_Bucket]]

\* RobinHoodHashtable() : _size(0) { init(INIT_SIZE); }
B_construct(cap) ==
    B_init([capacity |-> 0, size |-> 0, hung |-> FALSE,
            wrapped |-> FALSE, rehashing |-> 0, nested |-> FALSE,
            buckets |-> <<>>], cap)

\* head = (++head == _buckets + _capacity) ? _buckets : head
B_wrap(t, p) == IF p + 1 = t.capacity THEN 0 ELSE p + 1

\* The skip loop as plain linear probing has it: every bucket that is not
\* empty is passed, whatever its dib.
B_skipStep_linear(t, st) ==
    IF ~B_isEmpty(t.buckets[st.head])
    THEN [st EXCEPT !.dib = U8(@ + 1), !.head = B_wrap(t, @),
                    !.wrapped = @ \/ Wraps(st.dib)]
    ELSE [st EXCEPT !.done = TRUE]

\* insert: while (dib < head->_dib) { dib++; head = wrap(++head); }
B_skipStep(t, st) ==
    IF st.dib < t.buckets[st.head].dib
    THEN [st EXCEPT !.dib = U8(@ + 1), !.head = B_wrap(t, @),
                    !.wrapped = @ \/ Wraps(st.dib)]
    ELSE [st EXCEPT !.done = TRUE]

RECURSIVE B_skipRun(_, _, _)
B_skipRun(t, st, n) ==
    IF st.done \/ n = 0 THEN st
    ELSE IF n = 1 THEN B_skipStep(t, st)
    ELSE B_skipRun(t, B_skipRun(t, st, n \div 2), n - (n \div 2))

\* where the skip loop stops: [head, dib, wrapped, done]
B_skip(t, head, dib) ==
    B_skipRun(t, [head |-> head, dib |-> dib, wrapped |-> FALSE, done |-> FALSE],
              SkipFuel)

RECURSIVE B_insert(_, _)

\* rehash, the loop, bucket i of the old array: a filled bucket's value is
\* inserted
B_rehashStep(st, added, oldCap) ==
    IF st.i >= oldCap \/ st.t.hung THEN [st EXCEPT !.done = TRUE]
    ELSE IF B_isFilled(added[st.i])
    THEN [st EXCEPT !.t = B_insert(st.t, added[st.i].value), !.i = @ + 1]
    ELSE [st EXCEPT !.i = @ + 1]

RECURSIVE B_rehashRun(_, _, _, _)
B_rehashRun(st, added, oldCap, n) ==
    IF st.done \/ n = 0 THEN st
    ELSE IF n = 1 THEN B_rehashStep(st, added, oldCap)
    ELSE B_rehashRun(B_rehashRun(st, added, oldCap, n \div 2), added, oldCap, n - (n \div 2))

B_rehashLoop(t, added, oldCap) ==
    B_rehashRun([t |-> t, i |-> 0, done |-> FALSE], added, oldCap, oldCap + 1).t

\* rehash: fresh array of newCap buckets plus sentinel, _size = 0, then the
\* filled buckets of the old array are inserted in index order
B_rehash(t, oldCap, newCap) ==
    RehashLeave(B_rehashLoop(B_init([RehashEnter(t) EXCEPT !.size = 0], newCap),
                             t.buckets, oldCap))

B_needRehash(size, capacity) ==
    Shl(size, B_LOAD_FACTOR) >= Shl(capacity, B_LOAD_FACTOR) - capacity

\* insert, one pass from the label loop: to the goto, to the placement in
\* an empty bucket ("placed": ++_size done, the growth test still to come)
\* or to the return on an equal value
B_insertStep(st) ==
    LET at == B_skip(st.t, (hasher[st.v] + st.dib) % st.t.capacity, st.dib)
        t == [st.t EXCEPT !.wrapped = @ \/ at.wrapped]
        p == at.head
        dib == at.dib
        head == t.buckets[p]
    IN  IF dib # head.dib \/ st.v # head.value
        THEN IF B_isEmpty(head)
             THEN [st EXCEPT !.t = [t EXCEPT !.buckets[p] = [dib |-> dib, value |-> st.v],
                                             !.size = @ + 1],
                             !.placed = TRUE,
                             !.done = TRUE]
             ELSE [st EXCEPT !.t = [t EXCEPT !.buckets[p] = [dib |-> dib, value |-> st.v],
                                             !.wrapped = @ \/ Wraps(head.dib)],
                             !.v = head.value,
                             !.dib = U8(head.dib + 1)]
        ELSE [st EXCEPT !.t = t, !.done = TRUE]

RECURSIVE B_insertRun(_, _)
B_insertRun(st, n) ==
    IF st.done \/ n = 0 THEN st
    ELSE IF n = 1 THEN B_insertStep(st)
    ELSE B_insertRun(B_insertRun(st, n \div 2), n - (n \div 2))

\* insert: the loop, then after a placement
\* if ((_size << LOAD_FACTOR) >= (_capacity << LOAD_FACTOR) - _capacity)
\*     rehash(_capacity, _capacity << 1);
B_insertLoop(t, v, dib) ==
    LET r == B_insertRun(B_insertRun([t |-> t, v |-> v, dib |-> dib,
                                      placed |-> FALSE, done |-> FALSE],
                                     SkipFuel), Fuel(t))
    IN  IF ~r.done THEN [r.t EXCEPT !.hung = TRUE]
        ELSE IF r.placed /\ B_needRehash(r.t.size, r.t.capacity)
        THEN B_rehash(r.t, r.t.capacity, Shl(r.t.capacity, 1))
        ELSE r.t

\* insert(const T&).  With _capacity 0 the first statement of the loop,
\* (_hasher(tCopy) + dib) % _capacity, divides by zero: the program is
\* stopped by the trap and the call never returns.
B_insert(t, v) ==
    IF t.capacity = 0 THEN [t EXCEPT !.hung = TRUE]
    ELSE B_insertLoop(t, v, B_FILLED)

\* the probe loop of erase and ufind:
\* while (dib < prec->_dib || (dib == prec->_dib && !_equalTo(t, prec->_value)))
\*     { dib++; prec = wrap(++prec); }
B_probeStep(t, v, st) ==
    LET prec == t.buckets[st.prec]
    IN  IF st.dib < prec.dib \/ (st.dib = prec.dib /\ v # prec.value)
        THEN [st EXCEPT !.dib = U8(@ + 1), !.prec = B_wrap(t, @),
                        !.wrapped = @ \/ Wraps(st.dib)]
        ELSE [st EXCEPT !.done = TRUE]

RECURSIVE B_probeRun(_, _, _, _)
B_probeRun(t, v, st, n) ==
    IF st.done \/ n = 0 THEN st
    ELSE IF n = 1 THEN B_probeStep(t, v, st)
    ELSE B_probeRun(t, v, B_probeRun(t, v, st, n \div 2), n - (n \div 2))

\* where the probe loop stops: [prec, dib, wrapped, done].  With _capacity
\* 0 the initialisation of prec divides by zero: the program is stopped by
\* the trap and the loop is never left.
B_probe(t, v) ==
    IF t.capacity = 0
    THEN [prec |-> 0, dib |-> B_FILLED, wrapped |-> FALSE, done |-> FALSE]
    ELSE B_probeRun(t, v, [prec |-> (hasher[v] + B_FILLED) % t.capacity,
                           dib |-> B_FILLED, wrapped |-> FALSE, done |-> FALSE], Fuel(t))

\* erase: while (succ->_dib > FILLED) shift succ into prec; then empty the
\* last bucket and decrement the size
B_shiftStep(st) ==
    LET t == st.t
        succ == B_wrap(t, st.prec)
    IN  IF t.buckets[succ].dib > B_FILLED
        THEN [st EXCEPT !.t.buckets[st.prec] = [dib |-> t.buckets[succ].dib - 1,
                                                value |-> t.buckets[succ].value],
                        !.prec = succ]
        ELSE [st EXCEPT !.t.buckets[st.prec].dib = EMPTY,
                        !.t.size = @ - 1,
                        !.done = TRUE]

RECURSIVE B_shiftRun(_, _)
B_shiftRun(st, n) ==
    IF st.done \/ n = 0 THEN st
    ELSE IF n = 1 THEN B_shiftStep(st)
    ELSE B_shiftRun(B_shiftRun(st, n \div 2), n - (n \div 2))

B_shift(t, prec) ==
    LET r == B_shiftRun([t |-> t, prec |-> prec, done |-> FALSE], Fuel(t))
    IN  IF r.done THEN r.t ELSE [r.t EXCEPT !.hung = TRUE]

\* erase: "if the element is found" tests the dib only
B_erase(t, v) ==
    LET at == B_probe(t, v)
    IN  IF ~at.done THEN [t EXCEPT !.hung = TRUE]
        ELSE IF at.dib = t.buckets[at.prec].dib
        THEN B_shift(t, at.prec)
        ELSE t

\* ufind: the index of the bucket found, capacity for uend(), -1 when the
\* probe loop never ends
B_ufind(t, v) ==
    LET at == B_probe(t, v)
    IN  IF ~at.done THEN -1
        ELSE IF at.dib = t.buckets[at.prec].dib /\ v = t.buckets[at.prec].value
        THEN at.prec
        ELSE t.capacity

B_uend(t) == t.capacity

\* Iterator::operator++: do _bucketPtr++ while not filled (the sentinel at
\* index capacity stops it)
B_nextStep(t, st) ==
    IF ~B_isFilled(t.buckets[st.p + 1])
    THEN [st EXCEPT !.p = @ + 1]
    ELSE [p |-> st.p + 1, done |-> TRUE]

RECURSIVE B_nextRun(_, _, _)
B_nextRun(t, st, n) ==
    IF st.done \/ n = 0 THEN st
    ELSE IF n = 1 THEN B_nextStep(t, st)
    ELSE B_nextRun(t, B_nextRun(t, st, n \div 2), n - (n \div 2))

B_next(t, p) == B_nextRun(t, [p |-> p, done |-> FALSE], t.capacity + 1).p

B_ubegin(t) == IF B_isFilled(t.buckets[0]) THEN 0 ELSE B_next(t, 0)

\* clear: free(); init(INIT_SIZE);
B_clear(t, initSize) == B_init(t, initSize)

\* reserve: rehash(_capacity, (size << LOAD_FACTOR) / ((1 << LOAD_FACTOR) - 1));
B_reserve(t, n) ==
    B_rehash(t, t.capacity, Shl(n, B_LOAD_FACTOR) \div (Shl(1, B_LOAD_FACTOR) - 1))

\* operator=: free(); _size = source._size; init(source._capacity);
\* std::copy(source._buckets, source._buckets + _capacity, _buckets);
\* When source is the table itself (self), source._buckets is by then the
\* array init has just made, and the copy copies it onto itself.
B_assign(t, source, self) ==
    LET made == B_init([t EXCEPT !.size = source.size], source.capacity)
        from == IF self THEN made ELSE source
    IN  [made EXCEPT !.buckets = [i \in 0..made.capacity |->
                                    IF i < made.capacity THEN from.buckets[i] ELSE @[i]]]

B_size(t) == t.size
B_empty(t) == t.size = 0

(* ================= revision P: insert and rehash ====================== *)

\* The buckets (Bucket, with _dib = 0 and a value-initialised _value in the
\* vector), the skip loop of insert and the whole of erase read as in
\* revision A; the revision has no find.

RECURSIVE P_insert(_, _)

\* insert, one pass of the do-while loop: the skip loop, then the break on
\* an equal value, or the swap with whatever the bucket holds (empty and
\* to-rehash buckets too) and the test while (dib >= FILLED)
P_insertStep(st) ==
    LET hash == hasher[st.v]
        at == A_skip(st.t, hash, st.dib)
        t == [st.t EXCEPT !.wrapped = @ \/ at.wrapped]
        dib == at.dib
        p == (hash + dib) % t.capacity
        head == t.buckets[p]
    IN  IF dib = head.dib /\ st.v = head.value
        THEN [st EXCEPT !.t = t, !.done = TRUE]
        ELSE [t |-> [t EXCEPT !.buckets[p] = [dib |-> dib, value |-> st.v],
                              !.wrapped = @ \/ Wraps(head.dib)],
              v |-> head.value,
              dib |-> U8(head.dib + 1),
              done |-> U8(head.dib + 1) < A_FILLED]

RECURSIVE P_insertRun(_, _)
P_insertRun(st, n) ==
    IF st.done \/ n = 0 THEN st
    ELSE IF n = 1 THEN P_insertStep(st)
    ELSE P_insertRun(P_insertRun(st, n \div 2), n - (n \div 2))

P_insertLoop(t, v, dib) ==
    LET r == P_insertRun(P_insertRun([t |-> t, v |-> v, dib |-> dib, done |-> FALSE],
                                     SkipFuel), Fuel(t))
    IN  IF r.done THEN r.t ELSE [r.t EXCEPT !.hung = TRUE]

\* rehash, the second loop, bucket i: the value of a to-rehash bucket is
\* inserted (the bucket is left as it is); the loop breaks behind index
\* oldCapacity
P_rehashStep(st, oldCapacity) ==
    IF st.i >= st.t.capacity \/ st.t.hung THEN [st EXCEPT !.done = TRUE]
    ELSE LET t == IF A_isRehash(st.t.buckets[st.i])
                  THEN P_insert(st.t, st.t.buckets[st.i].value)
                  ELSE st.t
         IN  [t |-> t, i |-> st.i + 1, done |-> st.i > oldCapacity]

RECURSIVE P_rehashRun(_, _, _)
P_rehashRun(st, oldCapacity, n) ==
    IF st.done \/ n = 0 THEN st
    ELSE IF n = 1 THEN P_rehashStep(st, oldCapacity)
    ELSE P_rehashRun(P_rehashRun(st, oldCapacity, n \div 2), oldCapacity, n - (n \div 2))

P_rehashLoop(t, oldCapacity) ==
    P_rehashRun([t |-> t, i |-> 0, done |-> FALSE], oldCapacity, oldCapacity + 3).t

\* rehash: the filled buckets are marked to-rehash, the vector is resized
\* to _capacity *= EXP_GROWTH (the new buckets empty), _size = 1, reinsert
P_rehash(t) ==
    LET oldCapacity == t.capacity
        newCapacity == t.capacity * P_EXP_GROWTH
        marked == [i \in 0..(newCapacity - 1) |->
                     IF i < oldCapacity
                     THEN IF A_isFilled(t.buckets[i])
                          THEN [t.buckets[i] EXCEPT !.dib = REHASH]
                          ELSE t.buckets[i]
                     ELSE A_Bucket]
    IN  RehashLeave(P_rehashLoop([RehashEnter(t) EXCEPT !.capacity = newCapacity,
                                                        !.size = 1,
                                                        !.buckets = marked],
                                 oldCapacity))

\* the rehash test of insert: (++_size) >= _capacity * LOAD_FACTOR, a
\* comparison of floats; 0.7 * capacity is a whole number for no capacity
\* the table can have (INIT_SIZE times a power of 2), so that the test is
\* size >= 0.7 * capacity in exact arithmetic
P_needRehash(size, capacity) == 10 * size >= P_LOAD_TENTHS * capacity

P_insert(t, v) ==
    LET t1 == [t EXCEPT !.size = @ + 1]
        t2 == IF P_needRehash(t1.size, t1.capacity) THEN P_rehash(t1) ELSE t1
    IN  IF t2.hung THEN t2 ELSE P_insertLoop(t2, v, A_FILLED)

(* ====================== the table of the run ========================== *)

construct(cap) == IF rev = "B" THEN B_construct(cap) ELSE A_construct(cap)
insert(t, v) ==
    IF rev = "A" THEN A_insert(t, v)
    ELSE IF rev = "B" THEN B_insert(t, v)
    ELSE P_insert(t, v)
erase(t, v) == IF rev = "B" THEN B_erase(t, v) ELSE A_erase(t, v)
find(t, v) == IF rev = "B" THEN B_ufind(t, v) ELSE A_ufind(t, v)
end(t) == IF rev = "B" THEN B_uend(t) ELSE A_uend(t)
begin(t) == IF rev = "B" THEN B_ubegin(t) ELSE A_ubegin(t)
advance(t, p) == IF rev = "B" THEN B_next(t, p) ELSE A_next(t, p)
size(t) == IF rev = "B" THEN B_size(t) ELSE A_size(t)
isFilled(b) == IF rev = "B" THEN B_isFilled(b) ELSE A_isFilled(b)
\* the probe loop that find(v) and erase(v) run on t
probe(t, v) == IF rev = "B" THEN B_probe(t, v) ELSE A_probe(t, v)
FILLED == IF rev = "B" THEN B_FILLED ELSE A_FILLED

\* for (it = begin(); it != end(); ++it): the values met, in order
iterateStep(t, st) ==
    IF st.p = end(t) THEN [st EXCEPT !.done = TRUE]
    ELSE [st EXCEPT !.out = Append(@, t.buckets[st.p].value), !.p = advance(t, @)]

RECURSIVE iterateRun(_, _, _)
iterateRun(t, st, n) ==
    IF st.done \/ n = 0 THEN st
    ELSE IF n = 1 THEN iterateStep(t, st)
    ELSE iterateRun(t, iterateRun(t, st, n \div 2), n - (n \div 2))

iterate(t) ==
    iterateRun(t, [p |-> begin(t), out |-> <<>>, done |-> FALSE], t.capacity + 1).out

(* ----------------------- what a caller observes ----------------------- *)

\* the values for which find succeeds
Found(t) == {v \in DOMAIN hasher : find(t, v) # end(t)}
\* linear scan: some filled bucket of the array holds v
Stored(t, v) == \E i \in 0..(t.capacity - 1) : isFilled(t.buckets[i]) /\ t.buckets[i].value = v

(* --------------------------- state machine ---------------------------- *)

\* find, begin, end, ++ and size are const members: they are evaluated on
\* the states below and are no steps of their own.

NoCall == [name |-> "construct", arg |-> 0, stored |-> FALSE, live |-> FALSE]

\* The memory a table of revision B gets holds a number that is no value
\* of the run (0) or one that is (1); revisions A and P zero their buckets.
Junk == IF rev = "B" THEN {0, 1} ELSE {0}

Init ==
    /\ rev \in {"A", "B"}
    /\ hasher \in Hashers
    /\ junk \in Junk
    /\ tbl = construct(INIT_SIZE)
    /\ big = construct(BigCapacity)
    /\ ref = {}
    /\ op = NoCall
    /\ calls = "distinct"

Call(name, v) ==
    [name |-> name, arg |-> v, stored |-> Stored(tbl, v), live |-> v \in ref]

Insert(v) ==
    /\ ~tbl.hung
    /\ size(tbl) < MaxSize
    /\ tbl' = insert(tbl, v)
    /\ ref' = ref \cup {v}
    /\ op' = Call("insert", v)
    /\ calls' = IF calls = "distinct" /\ v \in ref THEN "mixed" ELSE calls
    /\ UNCHANGED <<rev, hasher, junk, big>>

Erase(v) ==
    /\ ~tbl.hung
    /\ tbl' = erase(tbl, v)
    /\ ref' = ref \ {v}
    /\ op' = Call("erase", v)
    /\ calls' = IF calls = "distinct" THEN "mixed" ELSE calls
    /\ UNCHANGED <<rev, hasher, junk, big>>

\* clear exists in revision B only
Clear ==
    /\ rev = "B"
    /\ ~tbl.hung
    /\ tbl' = B_clear(tbl, INIT_SIZE)
    /\ ref' = {}
    /\ op' = [name |-> "clear", arg |-> 0, stored |-> FALSE, live |-> FALSE]
    /\ calls' = "any"
    /\ UNCHANGED <<rev, hasher, junk, big>>

\* reserve exists in revision B only (SpecReserve)
Reserve(n) ==
    /\ rev = "B"
    /\ ~tbl.hung
    /\ tbl' = B_reserve(tbl, n)
    /\ op' = [name |-> "reserve", arg |-> n, stored |-> FALSE, live |-> FALSE]
    /\ UNCHANGED <<rev, hasher, junk, big, ref, calls>>

Next ==
    \/ \E v \in Values : Insert(v)
    \/ \E v \in Values : Erase(v)
    \/ Clear

Spec == Init /\ [][Next]_vars

\* Revision P, a caller that inserts.
InitStale ==
    /\ rev = "P"
    /\ hasher \in Hashers
    /\ junk \in Junk
    /\ tbl = construct(INIT_SIZE)
    /\ big = construct(BigCapacity)
    /\ ref = {}
    /\ op = NoCall
    /\ calls = "distinct"

NextStale == \E v \in Values : Insert(v)

SpecStale == InitStale /\ [][NextStale]_vars

\* Revision B, a caller that inserts and reserves.
InitReserve == Init /\ rev = "B"

NextReserve ==
    \/ \E v \in Values : Insert(v)
    \/ \E n \in ReserveSizes : Reserve(n)

SpecReserve == InitReserve /\ [][NextReserve]_vars

\* The same insert and erase calls made on tbl and on big, which starts
\* with BigCapacity buckets and so never has to grow.
InsertBoth(v) ==
    /\ ~tbl.hung /\ ~big.hung
    /\ size(tbl) < MaxSize
    /\ size(big) < MaxSize
    /\ tbl' = insert(tbl, v)
    /\ big' = insert(big, v)
    /\ UNCHANGED <<rev, hasher, junk, ref, op, calls>>

EraseBoth(v) ==
    /\ ~tbl.hung /\ ~big.hung
    /\ tbl' = erase(tbl, v)
    /\ big' = erase(big, v)
    /\ UNCHANGED <<rev, hasher, junk, ref, op, calls>>

NextBoth ==
    \/ \E v \in Values : InsertBoth(v)
    \/ \E v \in Values : EraseBoth(v)

SpecBoth == Init /\ [][NextBoth]_vars

\* One long probe chain: a hasher that gives every value the same hash, and
\* the distinct values 1, 2, 3, ... inserted in turn, up to ChainLen.  The
\* table starts with INIT_SIZE buckets and grows on the way, or starts with
\* ChainCapacity buckets and never grows (as the table of revision A does
\* with the source's INIT_SIZE, and the table of revision B after reserve).
\* Once all values but one have been inserted, erase is called too: with
\* the value inserted first, and with a value that is never inserted; no
\* more once size() has come down to ChainLen - MaxSize.
ChainCapacity == 2 ^ (DIB_BITS + 1)
ChainValues == 1..(ChainLen + 1)
ChainErased == {1, ChainLen + 1}

\* the value the next insert of the chain is called with: one above the
\* largest live value
ChainNext ==
    IF ref = {} THEN 1
    ELSE 1 + (CHOOSE v \in ref : (v + 1) \notin ref /\ \A w \in ref : w <= v)

InitChain ==
    /\ rev \in {"A", "B"}
    /\ hasher = [v \in ChainValues |-> 0]
    /\ junk \in Junk
    /\ \E cap \in {INIT_SIZE, ChainCapacity} : tbl = construct(cap)
    /\ big = construct(BigCapacity)
    /\ ref = {}
    /\ op = NoCall
    /\ calls = "distinct"

ChainInsert ==
    /\ ~tbl.hung
    /\ ChainNext <= ChainLen
    /\ tbl' = insert(tbl, ChainNext)
    /\ ref' = ref \cup {ChainNext}
    /\ op' = Call("insert", ChainNext)
    /\ UNCHANGED <<rev, hasher, junk, big, calls>>

ChainErase(v) ==
    /\ ~tbl.hung
    /\ ChainNext >= ChainLen
    /\ size(tbl) > ChainLen - MaxSize
    /\ tbl' = erase(tbl, v)
    /\ ref' = ref \ {v}
    /\ op' = Call("erase", v)
    /\ calls' = "mixed"
    /\ UNCHANGED <<rev, hasher, junk, big>>

NextChain ==
    \/ ChainInsert
    \/ \E v \in ChainErased : ChainErase(v)

SpecChain == InitChain /\ [][NextChain]_vars

\* The same chain next to a filled bucket: the value inserted first has
\* another hash, one or two below the chain's modulo the capacity, and so
\* sits in one of the two buckets in front of the chain's home bucket; the
\* table has ChainCapacity buckets and never grows.
NeighbourHashes == {ChainCapacity - 2, ChainCapacity - 1}

InitWrap ==
    /\ rev \in {"A", "B"}
    /\ \E h \in NeighbourHashes : hasher = [v \in ChainValues |-> IF v = 1 THEN h ELSE 0]
    /\ junk \in Junk
    /\ tbl = construct(ChainCapacity)
    /\ big = construct(BigCapacity)
    /\ ref = {}
    /\ op = NoCall
    /\ calls = "distinct"

SpecWrap == InitWrap /\ [][NextChain]_vars

\* Two orders of the same inserts.  tbl is given pairwise-distinct values
\* one call at a time, in any order; big is, after each call, a fresh table
\* of the capacity tbl has reached, given the same values in ascending
\* order.
OrderValues == 1..(MaxVal + 1)

Min(S) == CHOOSE v \in S : \A w \in S : v <= w

RECURSIVE InsertAscending(_, _)
InsertAscending(t, S) ==
    IF S = {} THEN t
    ELSE InsertAscending(insert(t, Min(S)), S \ {Min(S)})

InitOrder ==
    /\ rev \in {"A", "B"}
    /\ hasher \in [OrderValues -> HashRange]
    /\ junk \in Junk
    /\ tbl = construct(INIT_SIZE)
    /\ big = construct(INIT_SIZE)
    /\ ref = {}
    /\ op = NoCall
    /\ calls = "distinct"

OrderInsert(v) ==
    /\ v \notin ref
    /\ ~tbl.hung
    /\ tbl' = insert(tbl, v)
    /\ big' = InsertAscending(construct(tbl'.capacity), ref \cup {v})
    /\ ref' = ref \cup {v}
    /\ op' = Call("insert", v)
    /\ UNCHANGED <<rev, hasher, junk, calls>>

NextOrder == \E v \in OrderValues : OrderInsert(v)

SpecOrder == InitOrder /\ [][NextOrder]_vars

\* Insert all, then erase all: the chain of SpecChain is inserted up to
\* ChainLen values, then every value is erased, in ascending or in
\* descending order.
Max(S) == CHOOSE v \in S : \A w \in S : w <= v

DrainInsert == calls = "distinct" /\ ChainInsert

DrainErase(order) ==
    /\ ~tbl.hung
    /\ ref # {}
    /\ calls = order \/ (calls = "distinct" /\ Cardinality(ref) = ChainLen)
    /\ LET v == IF order = "ascending" THEN Min(ref) ELSE Max(ref)
       IN  /\ tbl' = erase(tbl, v)
           /\ ref' = ref \ {v}
           /\ op' = Call("erase", v)
    /\ calls' = order
    /\ UNCHANGED <<rev, hasher, junk, big>>

NextDrain ==
    \/ DrainInsert
    \/ \E order \in {"ascending", "descending"} : DrainErase(order)

SpecDrain == InitChain /\ [][NextDrain]_vars

\* The scenario of main: the values DEMO_FIRST down to 0 are inserted into a
\* fresh table whose hasher is the identity (std::hash<int>), then 0 up to
\* DEMO_KEPT - 1 are erased.  The table starts with the source's number of
\* buckets, or with INIT_SIZE buckets and grows on the way.
DemoValues == 0..DEMO_FIRST

InitDemo ==
    /\ rev \in {"A", "B"}
    /\ hasher = [v \in DemoValues |-> v]
    /\ junk \in Junk
    /\ \E cap \in {INIT_SIZE, IF rev = "A" THEN A_INIT_SIZE ELSE B_INIT_SIZE} :
           tbl = construct(cap)
    /\ big = construct(BigCapacity)
    /\ ref = {}
    /\ op = NoCall
    /\ calls = "distinct"

\* for (int i = 99; i >= 0; i--) r.insert(i);
DemoInsert ==
    /\ calls = "distinct"
    /\ 0 \notin ref
    /\ LET i == IF ref = {} THEN DEMO_FIRST ELSE Min(ref) - 1
       IN  /\ tbl' = insert(tbl, i)
           /\ ref' = ref \cup {i}
           /\ op' = Call("insert", i)
    /\ UNCHANGED <<rev, hasher, junk, big, calls>>

\* for (int i = 0; i < 50; i++) r.erase(i);
DemoErase ==
    /\ ref # {}
    /\ (calls = "distinct" /\ 0 \in ref) \/ calls = "mixed"
    /\ Min(ref) < DEMO_KEPT
    /\ tbl' = erase(tbl, Min(ref))
    /\ ref' = ref \ {Min(ref)}
    /\ op' = Call("erase", Min(ref))
    /\ calls' = "mixed"
    /\ UNCHANGED <<rev, hasher, junk, big>>

NextDemo == DemoInsert \/ DemoErase

SpecDemo == InitDemo /\ [][NextDemo]_vars

\* The calls of Spec with the table as it was when the last call was made
\* kept in big, so that what a call did to the buckets can be read off a
\* state.
InitBefore ==
    /\ rev \in {"A", "B"}
    /\ hasher \in Hashers
    /\ junk \in Junk
    /\ tbl = construct(INIT_SIZE)
    /\ big = tbl
    /\ ref = {}
    /\ op = NoCall
    /\ calls = "distinct"

BeforeInsert(v) ==
    /\ ~tbl.hung
    /\ size(tbl) < MaxSize
    /\ tbl' = insert(tbl, v)
    /\ big' = tbl
    /\ ref' = ref \cup {v}
    /\ op' = Call("insert", v)
    /\ calls' = IF calls = "distinct" /\ v \in ref THEN "mixed" ELSE calls
    /\ UNCHANGED <<rev, hasher, junk>>

BeforeErase(v) ==
    /\ ~tbl.hung
    /\ tbl' = erase(tbl, v)
    /\ big' = tbl
    /\ ref' = ref \ {v}
    /\ op' = Call("erase", v)
    /\ calls' = IF calls = "distinct" THEN "mixed" ELSE calls
    /\ UNCHANGED <<rev, hasher, junk>>

NextBefore ==
    \/ \E v \in Values : BeforeInsert(v)
    \/ \E v \in Values : BeforeErase(v)

SpecBefore == InitBefore /\ [][NextBefore]_vars

\* Revision B, a caller that inserts and reserves, with the table as it was
\* when the last call was made kept in big.
InitReserveBefore == InitBefore /\ rev = "B"

BeforeReserve(n) ==
    /\ rev = "B"
    /\ ~tbl.hung
    /\ tbl' = B_reserve(tbl, n)
    /\ big' = tbl
    /\ op' = [name |-> "reserve", arg |-> n, stored |-> FALSE, live |-> FALSE]
    /\ UNCHANGED <<rev, hasher, junk, ref, calls>>

NextReserveBefore ==
    \/ \E v \in Values : BeforeInsert(v)
    \/ \E n \in ReserveSizes : BeforeReserve(n)

SpecReserveBefore == InitReserveBefore /\ [][NextReserveBefore]_vars

\* Revision B, room made first: reserve(n), n >= 1, is called on the fresh
\* table, then up to n pairwise-distinct values are inserted.  big is the
\* table as reserve left it.
Reserved(t) ==
    CHOOSE n \in ReserveSizes : n >= 1 /\ B_reserve(construct(INIT_SIZE), n).capacity = t.capacity

RoomReserve(n) ==
    /\ rev = "B"
    /\ op = NoCall
    /\ n >= 1
    /\ tbl' = B_reserve(tbl, n)
    /\ big' = tbl'
    /\ op' = [name |-> "reserve", arg |-> n, stored |-> FALSE, live |-> FALSE]
    /\ calls' = "reserved"
    /\ UNCHANGED <<rev, hasher, junk, ref>>

RoomInsert(v) ==
    /\ calls = "reserved"
    /\ ~tbl.hung
    /\ v \notin ref
    /\ Cardinality(ref) < Reserved(big)
    /\ tbl' = insert(tbl, v)
    /\ ref' = ref \cup {v}
    /\ op' = Call("insert", v)
    /\ UNCHANGED <<rev, hasher, junk, big, calls>>

NextRoom ==
    \/ \E n \in ReserveSizes : RoomReserve(n)
    \/ \E v \in Values : RoomInsert(v)

SpecRoom == InitReserve /\ [][NextRoom]_vars

\* Revision B, two tables with the same hasher: a (tbl) and b (big), given
\* inserts and the assignments a = b and a = a in any order.  The argument
\* of the last call says which table it was made with: 0 for b, 1 for a.
InsertInto(self, v) ==
    /\ IF self
       THEN size(tbl) < MaxSize /\ tbl' = insert(tbl, v) /\ big' = big
       ELSE size(big) < MaxSize /\ big' = insert(big, v) /\ tbl' = tbl
    /\ op' = [name |-> "insert", arg |-> IF self THEN 1 ELSE 0,
              stored |-> FALSE, live |-> FALSE]
    /\ UNCHANGED <<rev, hasher, junk, ref, calls>>

Assign(self) ==
    /\ rev = "B"
    /\ tbl' = B_assign(tbl, IF self THEN tbl ELSE big, self)
    /\ op' = [name |-> "assign", arg |-> IF self THEN 1 ELSE 0,
              stored |-> FALSE, live |-> FALSE]
    /\ UNCHANGED <<rev, hasher, junk, big, ref, calls>>

NextAssign ==
    \/ \E self \in BOOLEAN, v \in Values : InsertInto(self, v)
    \/ \E self \in BOOLEAN : Assign(self)

SpecAssign == InitReserve /\ [][NextAssign]_vars

\* The calls of SpecWrap (the long chain next to a filled bucket), with the
\* table as it was when the last call was made kept in big.
InitWrapBefore ==
    /\ rev \in {"A", "B"}
    /\ \E h \in NeighbourHashes : hasher = [v \in ChainValues |-> IF v = 1 THEN h ELSE 0]
    /\ junk \in Junk
    /\ tbl = construct(ChainCapacity)
    /\ big = tbl
    /\ ref = {}
    /\ op = NoCall
    /\ calls = "distinct"

WrapInsert ==
    /\ ~tbl.hung
    /\ ChainNext <= ChainLen
    /\ tbl' = insert(tbl, ChainNext)
    /\ big' = tbl
    /\ ref' = ref \cup {ChainNext}
    /\ op' = Call("insert", ChainNext)
    /\ UNCHANGED <<rev, hasher, junk, calls>>

WrapErase(v) ==
    /\ ~tbl.hung
    /\ ChainNext >= ChainLen
    /\ size(tbl) > ChainLen - MaxSize
    /\ tbl' = erase(tbl, v)
    /\ big' = tbl
    /\ ref' = ref \ {v}
    /\ op' = Call("erase", v)
    /\ calls' = "mixed"
    /\ UNCHANGED <<rev, hasher, junk>>

NextWrapBefore ==
    \/ WrapInsert
    \/ \E v \in ChainErased : WrapErase(v)

SpecWrapBefore == InitWrapBefore /\ [][NextWrapBefore]_vars

\* Only pairwise-distinct inserts: a fresh table of revision B with the
\* source's number of buckets is given 1, 2, 3, ... up to GrowLen; its
\* hasher is the identity or gives every value the same hash.  big is the
\* table as it was when the last call was made.
GrowValues == 1..GrowLen

InitGrow ==
    /\ rev = "B"
    /\ hasher \in {[v \in GrowValues |-> v], [v \in GrowValues |-> 0]}
    /\ junk \in Junk
    /\ tbl = construct(B_INIT_SIZE)
    /\ big = tbl
    /\ ref = {}
    /\ op = NoCall
    /\ calls = "distinct"

GrowInsert ==
    /\ ~tbl.hung
    /\ Cardinality(ref) < GrowLen
    /\ LET v == Cardinality(ref) + 1
       IN  /\ tbl' = insert(tbl, v)
           /\ ref' = ref \cup {v}
           /\ op' = Call("insert", v)
    /\ big' = tbl
    /\ UNCHANGED <<rev, hasher, junk, calls>>

NextGrow == GrowInsert

SpecGrow == InitGrow /\ [][NextGrow]_vars

(* ============================== claims ================================ *)

\* the filled buckets of the array, by index
FilledAt(t) == {i \in 0..(t.capacity - 1) : isFilled(t.buckets[i])}

\* C1: insert is idempotent: a call insert(v) made while a filled bucket
\* holds v leaves size() and the set of values that find finds unchanged.
C1_InsertIdempotent ==
    [][(op'.name = "insert" /\ op'.stored)
          => (size(tbl') = size(tbl) /\ Found(tbl') = Found(tbl))]_vars

\* C2: uniqueness (I3): no two filled buckets hold equal values.
C2_Unique ==
    \A i, j \in FilledAt(tbl) : i # j => tbl.buckets[i].value # tbl.buckets[j].value

\* C3: after inserts of pairwise-distinct values into a fresh table, size()
\* is the number of values inserted and find finds each of them, for every
\* hasher and across growth.
C3_DistinctInserts ==
    calls = "distinct"
        => /\ size(tbl) = Cardinality(ref)
           /\ \A v \in ref : find(tbl, v) # end(tbl)

\* C4: right after erase(v) has returned, find(v) is end().
C4_EraseThenFind ==
    op.name = "erase" => find(tbl, op.arg) = end(tbl)

\* the values of a sequence, no value twice
NoRepeat(seq) == \A i, j \in 1..Len(seq) : i # j => seq[i] # seq[j]
Range(seq) == {seq[i] : i \in 1..Len(seq)}

\* C5: after any sequence of insert and erase calls, iterating from begin()
\* to end() yields exactly the values inserted and not erased since, each
\* once.
C5_IterateIsReference ==
    calls # "any" => (NoRepeat(iterate(tbl)) /\ Range(iterate(tbl)) = ref)

\* C6: in revision A, after every call size() is the number of distinct live
\* values, growth included.
C6_SizeIsLiveCount ==
    rev = "A" => size(tbl) = Cardinality(ref)

\* C7: after clear() the table is observably a fresh one: size() = 0,
\* empty(), capacity INIT_SIZE, begin() = end(), find fails for every value.
C7_ClearIsFresh ==
    op.name = "clear"
        => /\ size(tbl) = 0
           /\ B_empty(tbl)
           /\ tbl.capacity = INIT_SIZE
           /\ begin(tbl) = end(tbl)
           /\ Found(tbl) = {}

\* C8: growth transparency: a table that grows and one that starts large
\* enough never to grow agree on size() and on find(v) for every v after
\* every step of the same insert and erase calls.
C8_GrowthTransparent ==
    /\ size(tbl) = size(big)
    /\ Found(tbl) = Found(big)

\* C9: erase(v) of a value that is not stored (no filled bucket holds it
\* and it is not a live value) changes nothing: size(), capacity and every
\* bucket's dib and value stay as they were.
C9_EraseAbsentNoOp ==
    [][(op'.name = "erase" /\ ~op'.stored /\ ~op'.live) => tbl' = tbl]_vars

\* C10: find agrees with a linear scan: for a value some filled bucket
\* holds, find gives a filled bucket holding it; for any other value, end().
C10_FindIsLinearScan ==
    LET held == {tbl.buckets[i].value : i \in FilledAt(tbl)}
    IN  \A v \in DOMAIN hasher :
            LET at == find(tbl, v)
            IN  IF v \in held
                THEN /\ at # end(tbl)
                     /\ isFilled(tbl.buckets[at])
                     /\ tbl.buckets[at].value = v
                ELSE at = end(tbl)

\* C11: Robin Hood order (I1): after every call has returned, a filled
\* bucket that follows a filled bucket (cyclically) has a dib at most one
\* above its predecessor's.
C11_RobinHoodOrder ==
    ~tbl.hung
        => \A p \in FilledAt(tbl) :
               LET q == (p + 1) % tbl.capacity
               IN  isFilled(tbl.buckets[q])
                       => tbl.buckets[q].dib <= tbl.buckets[p].dib + 1

\* A state C11 is about: erase has just shifted buckets back, and a
\* filled bucket follows a filled one with a dib one above it.
C11_Witness ==
    /\ op.name = "erase" /\ op.stored /\ ~tbl.hung
    /\ \E p \in FilledAt(tbl) :
           LET q == (p + 1) % tbl.capacity
           IN  /\ q # p
               /\ isFilled(tbl.buckets[q])
               /\ tbl.buckets[q].dib = tbl.buckets[p].dib + 1

\* the bucket where a value's dib is FILLED
Ideal(t, v) == (hasher[v] + FILLED) % t.capacity

\* C12: contiguity (I2): after every call has returned, every bucket from
\* the ideal bucket of a stored value up to the bucket that holds it is
\* filled; and a filled bucket that follows an empty one has dib FILLED.
C12_Contiguity ==
    ~tbl.hung
        => \A p \in FilledAt(tbl) :
               LET home == Ideal(tbl, tbl.buckets[p].value)
                   far == (p + tbl.capacity - home) % tbl.capacity
               IN  /\ \A k \in 0..far : isFilled(tbl.buckets[(home + k) % tbl.capacity])
                   /\ ~isFilled(tbl.buckets[(p + tbl.capacity - 1) % tbl.capacity])
                          => tbl.buckets[p].dib = FILLED

\* A state C12 is about: erase has just removed a stored value, and a value
\* still sits away from its ideal bucket.
C12_Witness ==
    /\ op.name = "erase" /\ op.stored /\ ~tbl.hung
    /\ \E p \in FilledAt(tbl) : p # Ideal(tbl, tbl.buckets[p].value)

\* C13: load bound (I4): after every call has returned, 8 * size() is at
\* most 7 * capacity in revision A and 4 * size() at most 3 * capacity in
\* revision B (insert, erase, clear and reserve).
C13_LoadBound ==
    ~tbl.hung
        => IF rev = "A"
           THEN Shl(size(tbl), A_LOAD_FACTOR) <= (Shl(1, A_LOAD_FACTOR) - 1) * tbl.capacity
           ELSE Shl(size(tbl), B_LOAD_FACTOR) <= (Shl(1, B_LOAD_FACTOR) - 1) * tbl.capacity


\* C14: growth is never re-entered: in no call, of insert or of reserve,
\* was rehash entered while another call of rehash was reinserting.
C14_NoNestedRehash == ~tbl.nested

\* the layout of a table: dib and value at every index (the value of a
\* bucket that is not filled is no part of it)
Layout(t) ==
    [i \in 0..(t.capacity - 1) |->
        IF isFilled(t.buckets[i]) THEN t.buckets[i] ELSE [t.buckets[i] EXCEPT !.value = 0]]

Dibs(t) == [i \in 0..(t.capacity - 1) |-> t.buckets[i].dib]
\* the values the filled buckets hold
Held(t) == {t.buckets[i].value : i \in FilledAt(t)}

ValueCall == op.name \in {"insert", "erase"}

\* C16: every call of insert, erase and find returns: no call made so far
\* is still in one of its loops, and the probe loop of find ends when find
\* is called next with the value of the last call.
C16_Terminates ==
    /\ ~tbl.hung
    /\ ValueCall => probe(tbl, op.arg).done

\* C17: the 8-bit dib never wraps: no insert made so far computed dib++ or
\* _dib + 1 on the largest uint8_t, and the probe loop of find does not
\* when find is called next with the value of the last call.
C17_DibNeverWraps ==
    /\ ~tbl.wrapped
    /\ ValueCall => ~probe(tbl, op.arg).wrapped

\* C18: in revision A no bucket is marked to-rehash once insert has
\* returned, nor after any later call.
C18_RehashTransient ==
    (rev = "A" /\ ~tbl.hung)
        => \A i \in 0..(tbl.capacity - 1) : ~A_isRehash(tbl.buckets[i])

\* the values of the filled buckets, by increasing index
FilledTest(b) == isFilled(b)
ValuesInOrder(t) ==
    LET all == [i \in 1..t.capacity |-> t.buckets[i - 1]]
        filled == SelectSeq(all, FilledTest)
    IN  [i \in 1..Len(filled) |-> filled[i].value]

\* the first filled bucket at or after index p, end() if there is none
FirstFilledFrom(t, p) ==
    IF \E q \in FilledAt(t) : q >= p
    THEN CHOOSE q \in FilledAt(t) : q >= p /\ \A r \in FilledAt(t) : r >= p => q <= r
    ELSE end(t)

\* C19: begin() is the first filled bucket (end() if there is none), ++ on
\* an iterator at a filled bucket gives the next filled bucket above it or
\* end(), never an index above the capacity, and the traversal from begin()
\* to end() yields every filled bucket once, by increasing index.
C19_IterationInOrder ==
    /\ end(tbl) = tbl.capacity
    /\ begin(tbl) = FirstFilledFrom(tbl, 0)
    /\ \A p \in FilledAt(tbl) :
           /\ advance(tbl, p) = FirstFilledFrom(tbl, p + 1)
           /\ advance(tbl, p) <= tbl.capacity
    /\ iterate(tbl) = ValuesInOrder(tbl)

\* A state C19 is about: bucket 0 is not filled, and two filled buckets
\* have a bucket between them that is not filled.
C19_Witness ==
    /\ ~isFilled(tbl.buckets[0])
    /\ \E p, q \in FilledAt(tbl) :
           /\ p + 1 < q
           /\ \A r \in (p + 1)..(q - 1) : ~isFilled(tbl.buckets[r])
    /\ Len(iterate(tbl)) >= 2

\* C20: once all values inserted into a fresh table (pairwise distinct)
\* have been erased, size() is 0, every bucket is empty and find fails for
\* every value.
C20_EraseAllIsEmpty ==
    (calls \in {"ascending", "descending"} /\ ref = {})
        => /\ ~tbl.hung
           /\ size(tbl) = 0
           /\ \A i \in 0..(tbl.capacity - 1) : tbl.buckets[i].dib = EMPTY
           /\ Found(tbl) = {}

\* C21: the scenario of main with the identity hash: once DEMO_FIRST down
\* to 0 are inserted, size() is their number, iteration yields each of them
\* once and find(DEMO_SOUGHT) succeeds; once 0 up to DEMO_KEPT - 1 are
\* erased, size() is the number of values left, find(DEMO_SOUGHT) fails and
\* iteration yields exactly the values from DEMO_KEPT up.
C21_Demo ==
    /\ (calls = "distinct" /\ ref = DemoValues)
           => /\ ~tbl.hung
              /\ size(tbl) = DEMO_FIRST + 1
              /\ NoRepeat(iterate(tbl))
              /\ Range(iterate(tbl)) = DemoValues
              /\ find(tbl, DEMO_SOUGHT) # end(tbl)
    /\ (calls = "mixed" /\ ref = DEMO_KEPT..DEMO_FIRST)
           => /\ ~tbl.hung
              /\ size(tbl) = DEMO_FIRST + 1 - DEMO_KEPT
              /\ find(tbl, DEMO_SOUGHT) = end(tbl)
              /\ NoRepeat(iterate(tbl))
              /\ Range(iterate(tbl)) = DEMO_KEPT..DEMO_FIRST

\* A state C21 is about: the table of main (revision A, the source's number
\* of buckets) after the last erase of the scenario.
C21_Witness ==
    /\ rev = "A" /\ tbl.capacity = A_INIT_SIZE
    /\ calls = "mixed" /\ ref = DEMO_KEPT..DEMO_FIRST
    /\ op.name = "erase" /\ op.arg = DEMO_KEPT - 1 /\ op.stored

\* the number of buckets from p to the first bucket after p (cyclically)
\* that is empty or has dib FILLED; 0 if there is no such bucket
Reach(t, p) ==
    LET stops == {k \in 1..t.capacity :
                     LET b == t.buckets[(p + k) % t.capacity]
                     IN  b.dib = EMPTY \/ b.dib = FILLED}
    IN  IF stops = {} THEN 0 ELSE Min(stops)

\* what the claim says of the table u that erase made of t by removing the
\* value in bucket p
Footprint(t, u, p) ==
    LET n == Reach(t, p)
        last == (p + n - 1) % t.capacity
        moved == {(p + k) % t.capacity : k \in 0..(n - 2)}
    IN  /\ n > 0
        /\ u.capacity = t.capacity
        /\ size(u) = size(t) - 1
        /\ \A i \in moved :
               LET succ == t.buckets[(i + 1) % t.capacity]
               IN  u.buckets[i] = [dib |-> succ.dib - 1, value |-> succ.value]
        /\ u.buckets[last].dib = EMPTY
        /\ \A i \in DOMAIN t.buckets :
               (i \notin moved /\ i # last) => u.buckets[i] = t.buckets[i]

\* the last call was erase(v) and found v in a bucket of the table as it
\* was (big)
ErasedOne ==
    /\ op.name = "erase"
    /\ find(big, op.arg) \in 0..(big.capacity - 1)

\* C22: backward-shift footprint of erase: when erase(v) removes v from
\* bucket p and q is the first bucket after p that is empty or has dib
\* FILLED, each bucket from p up to the one two before q holds what its
\* successor held with the dib one lower, the bucket before q is empty,
\* every other bucket is as it was and size() is one lower.
C22_EraseFootprint ==
    ErasedOne => Footprint(big, tbl, find(big, op.arg))

\* C23: the stored dib matches the position: after every call has returned,
\* a filled bucket at index p that holds x with dib d has
\* p = (hash(x) + d) mod capacity, for the capacity the table has now.
C23_DibMatchesPosition ==
    ~tbl.hung
        => \A p \in FilledAt(tbl) :
               p = (hasher[tbl.buckets[p].value] + tbl.buckets[p].dib) % tbl.capacity

\* A state C23 is about: the table has grown, a value sits away from its
\* ideal bucket, and the position of a value wraps around the end of the
\* array.
C23_Witness ==
    /\ ~tbl.hung
    /\ tbl.capacity > INIT_SIZE
    /\ \E p \in FilledAt(tbl) : tbl.buckets[p].dib > FILLED
    /\ \E p \in FilledAt(tbl) :
           hasher[tbl.buckets[p].value] + tbl.buckets[p].dib >= tbl.capacity

\* C24: in revision A, after every call of insert and erase has returned,
\* _size is the number of buckets with dib >= FILLED, growth included.
C24_SizeIsFilledCount ==
    (rev = "A" /\ ~tbl.hung) => tbl.size = Cardinality(FilledAt(tbl))

\* C25: in revision A, insert(v) of a value that is already stored never
\* triggers rehash: the capacity and every bucket are as they were when the
\* call was made (big).
C25_StoredInsertNoRehash ==
    (rev = "A" /\ op.name = "insert" /\ op.stored)
        => /\ tbl.capacity = big.capacity
           /\ tbl.buckets = big.buckets

\* the smallest of cap, 2 * cap, 4 * cap, ... that k values do not fill up
\* to the growth test of revision B
RECURSIVE Schedule(_, _)
Schedule(k, cap) ==
    IF B_needRehash(k, cap) THEN Schedule(k, Shl(cap, 1)) ELSE cap

\* C26: growth schedule of revision B: the capacity changes exactly in the
\* insert call whose newly placed value makes 4 * size >= 3 * capacity, and
\* then to twice what it was; a fresh table that received only k
\* pairwise-distinct inserts has the smallest capacity B_INIT_SIZE * 2^j
\* with 4 * k < 3 * capacity.
C26_GrowthSchedule ==
    (rev = "B" /\ ~tbl.hung)
        => /\ op.name = "insert"
                  => /\ tbl.capacity # big.capacity
                            <=> B_needRehash(size(big) + 1, big.capacity)
                     /\ tbl.capacity \in {big.capacity, Shl(big.capacity, 1)}
           /\ tbl.capacity = Schedule(Cardinality(ref), B_INIT_SIZE)

\* C27: in revision B the capacity is at least 1 in every reachable state:
\* after the constructor and after any sequence of insert and reserve(n),
\* n >= 0.
C27_CapacityPositive ==
    rev = "B" => tbl.capacity >= 1

\* C28: in revision B, reserve(n) with n >= 1 leaves size() and the result
\* of find(v) for every value v as they were when the call was made (big),
\* also when n is smaller than the number of stored values.  The table the
\* call is made on has a capacity of 1 or more, so that find returns on it.
C28_ReserveKeeps ==
    (op.name = "reserve" /\ op.arg >= 1 /\ big.capacity >= 1)
        => /\ ~tbl.hung
           /\ size(tbl) = size(big)
           /\ Found(tbl) = Found(big)

\* C29: in revision B, after reserve(n) on an empty table, inserting up to
\* n pairwise-distinct values triggers no growth: the capacity stays what
\* reserve made it.
C29_ReservedRoom ==
    calls = "reserved" => tbl.capacity = big.capacity

\* C30: in revision B, after a = b the table a has the size() and the set
\* of found values that b had before the assignment, also when b is a
\* itself.
C30_AssignCopies ==
    [][op'.name = "assign"
          => LET b == IF op'.arg = 1 THEN tbl ELSE big
             IN  /\ size(tbl') = size(b)
                 /\ Found(tbl') = Found(b)]_vars

\* C31: in revision P, once an insert that triggered rehash has returned,
\* no bucket is left with dib REHASH.  Only rehash marks buckets so, and
\* every call of the run has returned in the states this is about.
C31_NoStaleRehash ==
    (rev = "P" /\ ~tbl.hung)
        => \A i \in 0..(tbl.capacity - 1) : ~A_isRehash(tbl.buckets[i])

====
